---- MODULE Spec2Model ----
(***************************************************************************)
(* A model of the order book core of market_data_pipeline: the price-level *)
(* ledger (OrderBook), its registry (OrderBookManager), the bounded buffer *)
(* (CircularBuffer) and the sequencing/validation layer (FeedHandler).     *)
(*                                                                         *)
(* Decimal values are modelled by integers (whole ticks).  A Python float  *)
(* is a record [neg, mag]: the sign bit and the magnitude, so that 0.0 and *)
(* -0.0 are two different floats that Decimal(str(.)) maps to equal keys.  *)
(***************************************************************************)
EXTENDS Integers, Sequences, FiniteSets, TLC

(***************************************************************************)
(* Bounds of the model.                                                    *)
(***************************************************************************)
MaxBookSeq == 3      \* sequence numbers offered to a stand-alone OrderBook
MaxLowSeq == 1       \* FeedHandler is offered the sequence numbers 0..MaxLowSeq
MaxHighSeq == 2      \* and T+1 .. T+1+MaxHighSeq, T the gap threshold
MaxAdds == 4         \* adds to a stand-alone CircularBuffer between two clears

(***************************************************************************)
(* Program constants.                                                      *)
(***************************************************************************)
DefaultGapThreshold == 10    \* FeedHandler.__init__ sequence_gap_threshold
DefaultDepth == 10           \* OrderBook.get_price_levels depth
SnapshotLogEvery == 1000     \* FeedHandler._check_book_state
BookSymbol == "AAPL"
OtherSymbol == "MSFT"

None == [none |-> TRUE]

(***************************************************************************)
(* data_ingestion/models.py                                                *)
(***************************************************************************)
Side == {"bid", "ask"}
UpdateType == {"add", "modify", "delete"}

Float(n) == [neg |-> FALSE, mag |-> n]
NegZero == [neg |-> TRUE, mag |-> 0]

MarketUpdate(ts, sym, p, sz, sd, ty, sq) ==
    [timestamp |-> ts, symbol |-> sym, price |-> p, size |-> sz,
     side |-> sd, update_type |-> ty, sequence_number |-> sq]

(***************************************************************************)
(* Conversions used by OrderBook.process_update.                           *)
(***************************************************************************)
\* Decimal(str(x)) for a float x: the decimal with the digits of x.  Decimal
\* equality and hashing are numeric, so Decimal('-0.0') is the key 0.
DecimalOfStr(x) == IF x.neg THEN 0 - x.mag ELSE x.mag

\* str(n) for an int n >= 0: its decimal digits.
RECURSIVE Str(_)
Str(n) == IF n < 10 THEN <<n>> ELSE Str(n \div 10) \o <<n % 10>>

(***************************************************************************)
(* order_book/models.py                                                    *)
(***************************************************************************)
OrderBookLevel(p, ords) == [price |-> p, orders |-> ords]

RECURSIVE SumOrders(_, _)
SumOrders(ords, ids) ==
    IF ids = {} THEN 0
    ELSE LET i == CHOOSE j \in ids : TRUE
         IN  ords[i] + SumOrders(ords, ids \ {i})

total_size(level) == SumOrders(level.orders, DOMAIN level.orders)

order_count(level) == Cardinality(DOMAIN level.orders)

PriceLevel(p, sz, cnt) == [price |-> p, size |-> sz, order_count |-> cnt]

OrderBookSnapshot(sym, ts, b, a, sq) ==
    [symbol |-> sym, timestamp |-> ts, bids |-> b, asks |-> a,
     sequence_number |-> sq]

(***************************************************************************)
(* SortedDict: a dict, modelled as a function, whose keys() is the sorted  *)
(* list of its keys.                                                       *)
(***************************************************************************)
EmptyDict == [k \in {} |-> None]

RECURSIVE SortedKeys(_)
SortedKeys(S) ==
    IF S = {} THEN <<>>
    ELSE LET m == CHOOSE x \in S : \A y \in S : x <= y
         IN  <<m>> \o SortedKeys(S \ {m})

keys(d) == SortedKeys(DOMAIN d)

DictSet(d, k, v) == [j \in (DOMAIN d) \cup {k} |-> IF j = k THEN v ELSE d[j]]

\* a plausible slip: the entry is not removed
DictDel_Keeps(d, k) == d

DictDel(d, k) == [j \in (DOMAIN d) \ {k} |-> d[j]]

Reverse(s) == [i \in 1..Len(s) |-> s[Len(s) + 1 - i]]

\* s[:n] of Python
SliceTo(s, n) ==
    IF n >= 0 THEN SubSeq(s, 1, IF n < Len(s) THEN n ELSE Len(s))
    ELSE SubSeq(s, 1, IF Len(s) + n > 0 THEN Len(s) + n ELSE 0)

\* s[-n:] of Python
SliceLast(s, n) ==
    IF n > 0 THEN SubSeq(s, IF Len(s) - n > 0 THEN Len(s) - n + 1 ELSE 1, Len(s))
    ELSE IF n = 0 THEN s
    ELSE SubSeq(s, IF 0 - n < Len(s) THEN 1 - n ELSE Len(s) + 1, Len(s))

(***************************************************************************)
(* order_book/book.py                                                      *)
(***************************************************************************)
NewOrderBook(sym) ==
    [symbol |-> sym, bids |-> EmptyDict, asks |-> EmptyDict,
     last_update_time |-> 0, sequence_number |-> 0]

\* the side an update works on: bids for Side.BID, asks for anything else
book_side(book, sd) == IF sd = "bid" THEN book.bids ELSE book.asks

\* a plausible slip: entries of the other side that the changed side crosses
\* are taken out, as a matching engine would
WithSide_Uncrossing(book, sd, d) ==
    IF sd = "bid"
    THEN [book EXCEPT !.bids = d,
                      !.asks = [q \in {a \in DOMAIN book.asks :
                                          \A b \in DOMAIN d : b < a} |-> book.asks[q]]]
    ELSE [book EXCEPT !.asks = d,
                      !.bids = [q \in {b \in DOMAIN book.bids :
                                          \A a \in DOMAIN d : b < a} |-> book.bids[q]]]

WithSide(book, sd, d) ==
    IF sd = "bid" THEN [book EXCEPT !.bids = d] ELSE [book EXCEPT !.asks = d]

\* a plausible slip: the new contribution joins those already at the price
SetLevel_Merging(d, price, seq, size) ==
    LET old == IF price \in DOMAIN d THEN d[price].orders ELSE EmptyDict
    IN  DictSet(d, price, OrderBookLevel(price, DictSet(old, Str(seq), size)))

\* book_side[price] = OrderBookLevel(price, {str(sequence_number): size})
SetLevel(d, price, seq, size) ==
    DictSet(d, price, OrderBookLevel(price, Str(seq) :> size))

\* a plausible slip: Modify inserts the entry when the price has none
ApplyToSide_ModifyInserts(d, update) ==
    LET price == DecimalOfStr(update.price)
        size == DecimalOfStr(update.size)
    IN  IF update.update_type = "delete"
        THEN IF price \in DOMAIN d THEN DictDel(d, price) ELSE d
        ELSE SetLevel(d, price, update.sequence_number, size)

\* a plausible slip: an Add or Modify of size 0 takes the entry out
ApplyToSide_ZeroRemoves(d, update) ==
    LET price == DecimalOfStr(update.price)
        size == DecimalOfStr(update.size)
    IN  IF update.update_type = "delete" \/ size = 0
        THEN IF price \in DOMAIN d THEN DictDel(d, price) ELSE d
        ELSE IF update.update_type = "modify"
        THEN IF price \in DOMAIN d
             THEN SetLevel(d, price, update.sequence_number, size) ELSE d
        ELSE SetLevel(d, price, update.sequence_number, size)

\* the ledger change of lines 30-47, before the bookkeeping of lines 49-50
ApplyToSide(d, update) ==
    LET price == DecimalOfStr(update.price)
        size == DecimalOfStr(update.size)
    IN  IF update.update_type = "delete"
        THEN IF price \in DOMAIN d THEN DictDel(d, price) ELSE d
        ELSE IF update.update_type = "modify"
        THEN IF price \in DOMAIN d
             THEN SetLevel(d, price, update.sequence_number, size) ELSE d
        ELSE SetLevel(d, price, update.sequence_number, size)

\* a plausible slip: the time is recorded, the sequence number is not
Stamp_IfChanged(book, update) ==
    [book EXCEPT !.last_update_time = update.timestamp]

\* a plausible slip: the time of the update is kept only if it is later
Stamp_LatestTime(book, update) ==
    [book EXCEPT !.last_update_time =
                     IF update.timestamp > @ THEN update.timestamp ELSE @,
                 !.sequence_number = update.sequence_number]

\* lines 49-50: the bookkeeping of an accepted update
Stamp(book, update) ==
    [book EXCEPT !.last_update_time = update.timestamp,
                 !.sequence_number = update.sequence_number]

\* the two early returns of OrderBook.process_update
WrongSymbol(book, update) == update.symbol # book.symbol

\* a plausible slip: < for <=, so that a duplicate is applied again
OutOfSequence_Strict(book, update) == update.sequence_number < book.sequence_number

OutOfSequence(book, update) == update.sequence_number <= book.sequence_number

\* OrderBook.process_update: the book afterwards, the value returned and the
\* warnings logged
OrderBook_process_update(book, update) ==
    IF WrongSymbol(book, update)
    THEN [book |-> book, ret |-> FALSE, log |-> {"wrong symbol"}]
    ELSE IF OutOfSequence(book, update)
    THEN [book |-> book, ret |-> FALSE, log |-> {"out-of-sequence"}]
    ELSE [book |-> Stamp(WithSide(book, update.side,
                                  ApplyToSide(book_side(book, update.side), update)),
                         update),
          ret |-> TRUE, log |-> {}]

LevelView(level) == PriceLevel(level.price, total_size(level), order_count(level))

\* a plausible slip: the bids are listed as the asks are, lowest price first
get_price_levels_Ascending(book, sd, depth) ==
    LET d == book_side(book, sd)
        cut == SliceTo(keys(d), depth)
    IN  [i \in 1..Len(cut) |-> LevelView(d[cut[i]])]

get_price_levels(book, sd, depth) ==
    LET d == book_side(book, sd)
        prices == IF sd = "bid" THEN Reverse(keys(d)) ELSE keys(d)
        cut == SliceTo(prices, depth)
    IN  [i \in 1..Len(cut) |-> LevelView(d[cut[i]])]

\* a plausible slip: the first key of the bids, their lowest price
best_bid_of_First(book) ==
    IF DOMAIN book.bids # {}
    THEN LevelView(book.bids[keys(book.bids)[1]])
    ELSE None

best_bid_of(book) ==
    IF DOMAIN book.bids # {}
    THEN LevelView(book.bids[keys(book.bids)[Len(keys(book.bids))]])
    ELSE None

best_ask_of(book) ==
    IF DOMAIN book.asks # {}
    THEN LevelView(book.asks[keys(book.asks)[1]])
    ELSE None

get_top_of_book(book) == [best_bid |-> best_bid_of(book), best_ask |-> best_ask_of(book)]

\* a plausible slip: the snapshot lists every level of each side
get_snapshot_AllLevels(book) ==
    OrderBookSnapshot(book.symbol, book.last_update_time,
                      get_price_levels(book, "bid", Cardinality(DOMAIN book.bids)),
                      get_price_levels(book, "ask", Cardinality(DOMAIN book.asks)),
                      book.sequence_number)

get_snapshot(book) ==
    OrderBookSnapshot(book.symbol, book.last_update_time,
                      get_price_levels(book, "bid", DefaultDepth),
                      get_price_levels(book, "ask", DefaultDepth),
                      book.sequence_number)

\* a plausible slip: clear also forgets the sequence number
OrderBook_clear_Resets(book) ==
    [book EXCEPT !.bids = EmptyDict, !.asks = EmptyDict, !.sequence_number = 0]

OrderBook_clear(book) == [book EXCEPT !.bids = EmptyDict, !.asks = EmptyDict]

(***************************************************************************)
(* order_book/manager.py: books is a function symbol -> OrderBook.         *)
(***************************************************************************)
\* a plausible slip: a book is created whether or not the symbol has one
get_or_create_book_Always(bks, sym) == DictSet(bks, sym, NewOrderBook(sym))

get_or_create_book(bks, sym) ==
    IF sym \notin DOMAIN bks THEN DictSet(bks, sym, NewOrderBook(sym)) ELSE bks

Manager_process_update(bks, update) ==
    LET created == get_or_create_book(bks, update.symbol)
        r == OrderBook_process_update(created[update.symbol], update)
    IN  [books |-> [created EXCEPT ![update.symbol] = r.book], ret |-> r.ret,
         log |-> r.log]

get_book(bks, sym) == IF sym \in DOMAIN bks THEN bks[sym] ELSE None

remove_book(bks, sym) == IF sym \in DOMAIN bks THEN DictDel(bks, sym) ELSE bks

(***************************************************************************)
(* data_ingestion/buffer.py: a deque(maxlen = max_size).                   *)
(***************************************************************************)
\* a plausible slip: a full buffer keeps what it has and drops the new update
Buffer_add_KeepsOldest(buf, cap, update) ==
    IF Len(buf) >= cap THEN buf ELSE Append(buf, update)

Buffer_add(buf, cap, update) ==
    IF cap = 0 THEN buf
    ELSE IF Len(buf) >= cap THEN Tail(buf) \o <<update>>
    ELSE Append(buf, update)

get_latest(buf, n) == SliceLast(buf, n)

Buffer_clear(buf) == <<>>

(***************************************************************************)
(* State.  symbols, sequence_gap_threshold and max_size are the fields the *)
(* constructors set; last records the most recent call: its name, the      *)
(* value it returned and the log events it emitted.  added is a history    *)
(* kept for the stand-alone CircularBuffer only: the updates passed to add *)
(* since the buffer was created or last cleared.  accepted is a history   *)
(* of a stand-alone book: for each side and price the size of the last     *)
(* Add or Modify there that process_update accepted.  held is the          *)
(* OrderBookSnapshot a caller holds from its last get_snapshot call.       *)
(* highest is a history of the handler: for each symbol the highest        *)
(* sequence number among the updates process_update has processed for it.  *)
(* feeder is the position of the task that runs process_update: idle, or   *)
(* suspended inside the call with the update it is processing.             *)
(***************************************************************************)
VARIABLES symbols, sequence_gap_threshold, max_size, buffer,
          last_sequence_numbers, books, book_update_counts, last, added,
          accepted, held, highest, feeder

config == <<symbols, sequence_gap_threshold, max_size>>
handler == <<buffer, last_sequence_numbers, book_update_counts>>
vars == <<symbols, sequence_gap_threshold, max_size, buffer,
          last_sequence_numbers, books, book_update_counts, held, highest,
          feeder, added, accepted, last>>

Idle == [pc |-> "idle"]

Call(op, ret, log, applied) ==
    [op |-> op, ret |-> ret, log |-> log, applied |-> applied]

NoCall == Call("init", None, {}, None)

\* what an accepted update did to the ledger: its kind and side and whether
\* it inserted, replaced or removed an entry or changed none
Applied(book, update) ==
    LET price == DecimalOfStr(update.price)
        existed == price \in DOMAIN book_side(book, update.side)
    IN  [kind |-> update.update_type, side |-> update.side,
         effect |-> IF update.update_type = "delete"
                    THEN IF existed THEN "removed" ELSE "none"
                    ELSE IF update.update_type = "modify"
                    THEN IF existed THEN "replaced" ELSE "none"
                    ELSE IF existed THEN "replaced" ELSE "inserted"]

(***************************************************************************)
(* Inputs.                                                                 *)
(***************************************************************************)
BookPrices == {Float(0), NegZero, Float(1)}
BookSizes == {Float(0), Float(1)}
Times == {1, 2}

\* every update over these values: what the properties range over
AnyUpdates ==
    {MarketUpdate(ts, sym, p, sz, sd, ty, sq) :
        ts \in Times, sym \in {BookSymbol, OtherSymbol}, p \in BookPrices,
        sz \in BookSizes, sd \in Side, ty \in UpdateType, sq \in 0..MaxBookSeq}

\* every update of the book's own symbol, and of another symbol one of each
\* kind and sequence number
OwnAndForeign ==
    {update \in AnyUpdates : update.symbol = BookSymbol}
    \cup {MarketUpdate(1, OtherSymbol, Float(1), Float(1), "bid", ty, sq) :
             ty \in UpdateType, sq \in 0..MaxBookSeq}

\* the updates the book is driven with: of those, one float for each price
\* key (0.0 and -0.0 are the same key)
BookUpdates == {update \in OwnAndForeign : update.price # NegZero}

(***************************************************************************)
(* A stand-alone OrderBook("AAPL"), held in books[BookSymbol], driven      *)
(* through its own methods.                                                *)
(***************************************************************************)
TheBook == books[BookSymbol]

InitBook ==
    /\ symbols = {}
    /\ sequence_gap_threshold = DefaultGapThreshold
    /\ max_size = 0
    /\ buffer = <<>>
    /\ last_sequence_numbers = EmptyDict
    /\ book_update_counts = EmptyDict
    /\ books = (BookSymbol :> NewOrderBook(BookSymbol))
    /\ last = NoCall
    /\ added = <<>>
    /\ accepted = EmptyDict
    /\ held = None
    /\ highest = EmptyDict
    /\ feeder = Idle

BookProcessUpdate ==
    \E update \in BookUpdates :
        LET r == OrderBook_process_update(TheBook, update)
        IN  /\ books' = [books EXCEPT ![BookSymbol] = r.book]
            /\ last' = Call("OrderBook.process_update", r.ret, r.log,
                            IF r.ret THEN Applied(TheBook, update) ELSE None)
            /\ UNCHANGED <<config, handler, added, accepted, held, highest, feeder>>

BookClear ==
    /\ books' = [books EXCEPT ![BookSymbol] = OrderBook_clear(@)]
    /\ last' = Call("OrderBook.clear", None, {"cleared"}, None)
    /\ UNCHANGED <<config, handler, added, accepted, held, highest, feeder>>

BookGetTopOfBook ==
    /\ last' = Call("OrderBook.get_top_of_book", None, {}, None)
    /\ UNCHANGED <<config, handler, added, accepted, held, highest, feeder, books>>

BookGetPriceLevels ==
    /\ last' = Call("OrderBook.get_price_levels", None, {}, None)
    /\ UNCHANGED <<config, handler, added, accepted, held, highest, feeder, books>>

BookGetSnapshot ==
    /\ last' = Call("OrderBook.get_snapshot", None, {}, None)
    /\ UNCHANGED <<config, handler, added, accepted, held, highest, feeder, books>>

NextBook ==
    \/ BookProcessUpdate
    \/ BookClear
    \/ BookGetTopOfBook
    \/ BookGetPriceLevels
    \/ BookGetSnapshot

SpecBook == InitBook /\ [][NextBook]_vars

(***************************************************************************)
(* data_ingestion/feed_handler.py.  The operators read the handler's state *)
(* variables and return the state FeedHandler.process_update leaves.       *)
(***************************************************************************)
\* self.last_sequence_numbers.get(symbol, 0)
last_seq(sym) ==
    IF sym \in DOMAIN last_sequence_numbers THEN last_sequence_numbers[sym] ELSE 0

seq_gap(update) == update.sequence_number - last_seq(update.symbol) - 1

IsLargeGap(update) ==
    seq_gap(update) > 0 /\ seq_gap(update) > sequence_gap_threshold

IsSmallGap(update) ==
    seq_gap(update) > 0 /\ ~(seq_gap(update) > sequence_gap_threshold)

\* a plausible slip: the reset clears every registered book
handle_large_sequence_gap_All(bks, sym) ==
    [s \in DOMAIN bks |-> OrderBook_clear(bks[s])]

\* _handle_large_sequence_gap: clear the symbol's book if it is registered
handle_large_sequence_gap(bks, sym) ==
    IF get_book(bks, sym) # None
    THEN [bks EXCEPT ![sym] = OrderBook_clear(@)]
    ELSE bks

IsCrossed(book) ==
    LET top == get_top_of_book(book)
    IN  /\ top.best_bid # None
        /\ top.best_ask # None
        /\ top.best_bid.price >= top.best_ask.price

\* _check_book_state: the events it logs; it changes nothing
check_book_state(bks, counts, sym) ==
    IF get_book(bks, sym) = None THEN {}
    ELSE (IF IsCrossed(bks[sym]) THEN {"crossed book"} ELSE {})
         \cup (IF counts[sym] % SnapshotLogEvery = 0 THEN {"book state"} ELSE {})

\* a plausible slip: the test of line 30 is missing
UnknownSymbol_Missing(update) == FALSE

\* line 30: the symbol is not in the configured set
UnknownSymbol(update) == update.symbol \notin symbols

\* a plausible slip: the counters are created on first use, not by __init__
Uncounted_Lazy(counts, sym) == sym \notin DOMAIN counts \/ counts[sym] = 0

\* line 59: book_update_counts[symbol] += 1 raises KeyError for a symbol
\* that has no counter
Uncounted(counts, sym) == sym \notin DOMAIN counts

\* the history of the highest sequence number processed for each symbol,
\* after process_update took the update: unknown symbols are not processed
Seen(h, update) ==
    IF UnknownSymbol(update) THEN h
    ELSE DictSet(h, update.symbol,
                 IF update.symbol \in DOMAIN h /\ h[update.symbol] > update.sequence_number
                 THEN h[update.symbol] ELSE update.sequence_number)

\* FeedHandler.process_update: the state it leaves, the value returned, the
\* events logged and whether it raised (lines 64-66 log and re-raise)
FeedHandler_process_update(update) ==
    IF UnknownSymbol(update)
    THEN [books |-> books, last_sequence_numbers |-> last_sequence_numbers,
          buffer |-> buffer, book_update_counts |-> book_update_counts,
          ret |-> None, log |-> {"unknown symbol"}, raised |-> FALSE]
    ELSE
      LET sym == update.symbol
          reset == IF IsLargeGap(update)
                   THEN handle_large_sequence_gap(books, sym) ELSE books
          gaplog == IF IsLargeGap(update)
                    THEN {"large gap"} \cup
                         (IF get_book(books, sym) # None THEN {"cleared"} ELSE {})
                    ELSE IF IsSmallGap(update) THEN {"small gap"} ELSE {}
          r == Manager_process_update(reset, update)
          keyerror == r.ret /\ Uncounted(book_update_counts, sym)
          counts == IF r.ret /\ ~keyerror
                    THEN [book_update_counts EXCEPT ![sym] = @ + 1]
                    ELSE book_update_counts
      IN  [books |-> r.books,
           last_sequence_numbers |->
               DictSet(last_sequence_numbers, sym, update.sequence_number),
           buffer |-> Buffer_add(buffer, max_size, update),
           book_update_counts |-> counts,
           ret |-> IF keyerror THEN None ELSE update,
           log |-> gaplog \cup r.log \cup
                   (IF keyerror THEN {"error"}
                    ELSE IF r.ret THEN check_book_state(r.books, counts, sym)
                    ELSE {}),
           raised |-> keyerror]

\* lines 37-58: what the manager makes of the update once the handler has
\* reset the book for a large gap, a function of the books, the sequence
\* trackers and the update alone
LedgerDecision(update) ==
    Manager_process_update(IF IsLargeGap(update)
                           THEN handle_large_sequence_gap(books, update.symbol)
                           ELSE books,
                           update)

\* a plausible slip: the query looks the book up with get_or_create_book
FeedHandler_get_book_snapshot_Creating(bks, sym) ==
    LET created == get_or_create_book(bks, sym)
    IN  [books |-> created, ret |-> get_snapshot(created[sym])]

\* FeedHandler.get_book_snapshot: the registry afterwards and the value
\* returned
FeedHandler_get_book_snapshot(bks, sym) ==
    LET book == get_book(bks, sym)
    IN  [books |-> bks, ret |-> IF book # None THEN get_snapshot(book) ELSE None]

\* FeedHandler.get_top_of_book: the registry afterwards and the value
\* returned, (None, None) without a book
FeedHandler_get_top_of_book(bks, sym) ==
    LET book == get_book(bks, sym)
    IN  [books |-> bks,
         ret |-> IF book # None THEN get_top_of_book(book)
                 ELSE [best_bid |-> None, best_ask |-> None]]

\* spread > 5.0 for spread = (ask - bid) / bid * 100, bid # 0
LargeSpread(bid, ask) ==
    IF bid > 0 THEN (ask - bid) * 100 > 5 * bid ELSE (ask - bid) * 100 < 5 * bid

\* the body of the loop of check_all_books for one symbol: the warnings it
\* logs and whether it raised.  Dividing by a best bid price of zero raises
\* decimal.DivisionByZero, or InvalidOperation when the ask is zero too.
check_one_book(bks, sym) ==
    IF get_book(bks, sym) = None THEN [raised |-> FALSE, log |-> {}]
    ELSE LET snapshot == get_snapshot(bks[sym])
             top == get_top_of_book(bks[sym])
         IN  IF Len(snapshot.bids) = 0 /\ Len(snapshot.asks) = 0
             THEN [raised |-> FALSE, log |-> {"empty book"}]
             ELSE IF top.best_bid # None /\ top.best_ask # None
             THEN IF top.best_bid.price = 0
                  THEN [raised |-> TRUE, log |-> {}]
                  ELSE [raised |-> FALSE,
                        log |-> IF LargeSpread(top.best_bid.price, top.best_ask.price)
                                THEN {"large spread"} ELSE {}]
             ELSE [raised |-> FALSE, log |-> {}]

\* check_all_books, the symbols visited in the order the set iterates in:
\* nothing catches what a book raises, so the loop ends there
RECURSIVE check_all_books(_, _)
check_all_books(order, bks) ==
    IF order = <<>> THEN [raised |-> FALSE, log |-> {}]
    ELSE LET one == check_one_book(bks, Head(order))
             rest == check_all_books(Tail(order), bks)
         IN  IF one.raised THEN one
             ELSE [raised |-> rest.raised, log |-> one.log \cup rest.log]

\* the orders a set of symbols can be iterated in
Orders(syms) ==
    {order \in [1..Cardinality(syms) -> syms] :
        \A i \in DOMAIN order : \A j \in DOMAIN order :
            order[i] = order[j] => i = j}

Raised == [raised |-> TRUE]

(***************************************************************************)
(* The pipeline: FeedHandler({"AAPL"}, buffer_size = 1) with the default   *)
(* gap threshold, fed one update at a time as MarketDataApp.run does.      *)
(***************************************************************************)
T == DefaultGapThreshold

FeedSeqs == (0..MaxLowSeq) \cup ((T + 1)..(T + 1 + MaxHighSeq))
FeedPrices == {Float(1)}

FeedUpdates ==
    {MarketUpdate(1, sym, p, Float(1), sd, ty, sq) :
        sym \in {BookSymbol, OtherSymbol}, p \in FeedPrices,
        sd \in Side, ty \in UpdateType, sq \in FeedSeqs}

Init ==
    /\ symbols = {BookSymbol}
    /\ sequence_gap_threshold = DefaultGapThreshold
    /\ max_size = 1
    /\ buffer = <<>>
    /\ last_sequence_numbers = EmptyDict
    /\ book_update_counts = [sym \in {BookSymbol} |-> 0]
    /\ books = EmptyDict
    /\ last = NoCall
    /\ added = <<>>
    /\ accepted = EmptyDict
    /\ held = None
    /\ highest = EmptyDict
    /\ feeder = Idle

FeedProcessUpdate ==
    \E update \in FeedUpdates :
        LET r == FeedHandler_process_update(update)
        IN  /\ books' = r.books
            /\ last_sequence_numbers' = r.last_sequence_numbers
            /\ buffer' = r.buffer
            /\ book_update_counts' = r.book_update_counts
            /\ last' = Call("FeedHandler.process_update",
                            IF r.raised THEN Raised ELSE r.ret, r.log, None)
            /\ highest' = Seen(highest, update)
            /\ UNCHANGED <<config, added, accepted, held, feeder>>

Next == FeedProcessUpdate

Spec == Init /\ [][Next]_vars

(***************************************************************************)
(* A handler of two symbols, FeedHandler({"AAPL", "MSFT"}, buffer_size = 0), *)
(* fed updates of both and audited by check_all_books as                   *)
(* MarketDataApp.run does between updates.                                 *)
(***************************************************************************)
PairSeqs == {1, 2, T + 4}

\* bids at 0 and at 1, asks at 1
PairQuotes == {<<"bid", Float(0)>>, <<"bid", Float(1)>>, <<"ask", Float(1)>>}

PairUpdates ==
    {MarketUpdate(1, sym, q[2], Float(1), q[1], "add", sq) :
        sym \in {BookSymbol, OtherSymbol}, q \in PairQuotes, sq \in PairSeqs}

InitPair ==
    /\ symbols = {BookSymbol, OtherSymbol}
    /\ sequence_gap_threshold = DefaultGapThreshold
    /\ max_size = 0
    /\ buffer = <<>>
    /\ last_sequence_numbers = EmptyDict
    /\ book_update_counts = [sym \in {BookSymbol, OtherSymbol} |-> 0]
    /\ books = EmptyDict
    /\ last = NoCall
    /\ added = <<>>
    /\ accepted = EmptyDict
    /\ held = None
    /\ highest = EmptyDict
    /\ feeder = Idle

PairProcessUpdate ==
    \E update \in PairUpdates :
        LET r == FeedHandler_process_update(update)
        IN  /\ books' = r.books
            /\ last_sequence_numbers' = r.last_sequence_numbers
            /\ buffer' = r.buffer
            /\ book_update_counts' = r.book_update_counts
            /\ last' = Call("FeedHandler.process_update",
                            IF r.raised THEN Raised ELSE r.ret, r.log, None)
            /\ highest' = Seen(highest, update)
            /\ UNCHANGED <<config, added, accepted, held, feeder>>

PairCheckAllBooks ==
    \E order \in Orders(symbols) :
        LET r == check_all_books(order, books)
        IN  /\ last' = Call("FeedHandler.check_all_books",
                            IF r.raised THEN Raised ELSE None, r.log, None)
            /\ UNCHANGED <<config, handler, added, accepted, held, highest, feeder, books>>

NextPair ==
    \/ PairProcessUpdate
    \/ PairCheckAllBooks

SpecPair == InitPair /\ [][NextPair]_vars

(***************************************************************************)
(* The tasks of MarketDataApp.run on one event loop, for a handler of      *)
(* "AAPL" with buffer_size = 1: the task that pulls updates and awaits     *)
(* process_update and, every so often, check_all_books; the task of        *)
(* monitor_markets; the task of AnalyticsEngine.start.  A task runs until  *)
(* it reaches an await that suspends it, and only then can another run.    *)
(***************************************************************************)
\* whether awaiting the coroutine hands control to the event loop: it does
\* only if the coroutine reaches an await that suspends, and neither
\* _handle_large_sequence_gap (lines 68-78) nor _check_book_state
\* (lines 80-105) contains an await
Suspends(coroutine) == FALSE

AsyncSeqs == {1, 2, T + 4}

AsyncUpdates ==
    {MarketUpdate(1, BookSymbol, Float(1), Float(1), sd, "add", sq) :
        sd \in Side, sq \in AsyncSeqs}

InitAsync ==
    /\ symbols = {BookSymbol}
    /\ sequence_gap_threshold = DefaultGapThreshold
    /\ max_size = 1
    /\ buffer = <<>>
    /\ last_sequence_numbers = EmptyDict
    /\ book_update_counts = [sym \in {BookSymbol} |-> 0]
    /\ books = EmptyDict
    /\ last = NoCall
    /\ added = <<>>
    /\ accepted = EmptyDict
    /\ held = None
    /\ highest = EmptyDict
    /\ feeder = Idle

\* the feeding task runs process_update from where it is to the next await
\* that suspends it: line 44 after the book was cleared, line 60 after the
\* ledger took the update, or else to the return.  Clearing twice is
\* clearing once, so the rest of a call suspended at line 44 is the whole
\* call on the cleared book.
AsyncProcessUpdate ==
    IF feeder = Idle
    THEN \E update \in AsyncUpdates :
           LET r == FeedHandler_process_update(update)
           IN  IF IsLargeGap(update) /\ Suspends("_handle_large_sequence_gap")
               THEN /\ books' = handle_large_sequence_gap(books, update.symbol)
                    /\ feeder' = [pc |-> "line 44", update |-> update]
                    /\ UNCHANGED <<config, handler, added, accepted, held,
                                   highest, last>>
               ELSE /\ books' = r.books
                    /\ last_sequence_numbers' = r.last_sequence_numbers
                    /\ buffer' = r.buffer
                    /\ book_update_counts' = r.book_update_counts
                    /\ highest' = Seen(highest, update)
                    /\ UNCHANGED <<config, added, accepted, held>>
                    /\ IF LedgerDecision(update).ret /\ Suspends("_check_book_state")
                       THEN /\ feeder' = [pc |-> "line 60", update |-> update]
                            /\ UNCHANGED last
                       ELSE /\ feeder' = Idle
                            /\ last' = Call("FeedHandler.process_update",
                                            IF r.raised THEN Raised ELSE r.ret,
                                            r.log, None)
    ELSE IF feeder.pc = "line 44"
    THEN LET r == FeedHandler_process_update(feeder.update)
         IN  /\ books' = r.books
             /\ last_sequence_numbers' = r.last_sequence_numbers
             /\ buffer' = r.buffer
             /\ book_update_counts' = r.book_update_counts
             /\ highest' = Seen(highest, feeder.update)
             /\ feeder' = Idle
             /\ last' = Call("FeedHandler.process_update",
                             IF r.raised THEN Raised ELSE r.ret, r.log, None)
             /\ UNCHANGED <<config, added, accepted, held>>
    ELSE /\ feeder' = Idle
         /\ last' = Call("FeedHandler.process_update", feeder.update, {}, None)
         /\ UNCHANGED <<config, handler, added, accepted, held, highest, books>>

\* run, line 109: between two updates the feeding task awaits
\* check_all_books
AsyncCheckAllBooks ==
    /\ feeder = Idle
    /\ \E order \in Orders(symbols) :
          LET r == check_all_books(order, books)
          IN  last' = Call("FeedHandler.check_all_books",
                           IF r.raised THEN Raised ELSE None, r.log, None)
    /\ UNCHANGED <<config, handler, added, accepted, held, highest, feeder, books>>

\* one round of monitor_markets: print_book_snapshot for the symbol, which
\* reads the snapshot and, if there is one, the top of the book
AsyncMonitorMarkets ==
    LET snapshot == FeedHandler_get_book_snapshot(books, BookSymbol)
        top == FeedHandler_get_top_of_book(snapshot.books, BookSymbol)
    IN  /\ books' = IF snapshot.ret = None THEN snapshot.books ELSE top.books
        /\ held' = snapshot.ret
        /\ last' = Call("MarketDataApp.monitor_markets", None, {}, None)
        /\ UNCHANGED <<config, handler, added, accepted, highest, feeder>>

\* one round of AnalyticsEngine._calculate_metrics: a snapshot of every
\* book of the manager the engine shares with the handler
AsyncCalculateMetrics ==
    /\ held' = IF BookSymbol \in DOMAIN books
               THEN get_snapshot(books[BookSymbol]) ELSE held
    /\ last' = Call("AnalyticsEngine._calculate_metrics", None, {}, None)
    /\ UNCHANGED <<config, handler, added, accepted, highest, feeder, books>>

NextAsync ==
    \/ AsyncProcessUpdate
    \/ AsyncCheckAllBooks
    \/ AsyncMonitorMarkets
    \/ AsyncCalculateMetrics

SpecAsync == InitAsync /\ [][NextAsync]_vars

(***************************************************************************)
(* A stand-alone OrderBookManager, its registry held in books, driven      *)
(* through its own methods for two symbols.                                *)
(***************************************************************************)
ManagerSymbols == {BookSymbol, OtherSymbol}
ManagerSeqs == {1, 2}

ManagerUpdates ==
    {MarketUpdate(1, sym, Float(1), Float(1), sd, ty, sq) :
        sym \in ManagerSymbols, sd \in Side, ty \in {"add", "delete"},
        sq \in ManagerSeqs}

InitManager ==
    /\ symbols = {}
    /\ sequence_gap_threshold = DefaultGapThreshold
    /\ max_size = 0
    /\ buffer = <<>>
    /\ last_sequence_numbers = EmptyDict
    /\ book_update_counts = EmptyDict
    /\ books = EmptyDict
    /\ last = NoCall
    /\ added = <<>>
    /\ accepted = EmptyDict
    /\ held = None
    /\ highest = EmptyDict
    /\ feeder = Idle

ManagerGetOrCreateBook ==
    \E sym \in ManagerSymbols :
        /\ books' = get_or_create_book(books, sym)
        /\ last' = Call("OrderBookManager.get_or_create_book", books'[sym],
                        IF sym \in DOMAIN books THEN {} ELSE {"created"}, None)
        /\ UNCHANGED <<config, handler, added, accepted, held, highest, feeder>>

ManagerProcessUpdate ==
    \E update \in ManagerUpdates :
        LET r == Manager_process_update(books, update)
        IN  /\ books' = r.books
            /\ last' = Call("OrderBookManager.process_update", r.ret, r.log, None)
            /\ UNCHANGED <<config, handler, added, accepted, held, highest, feeder>>

ManagerGetBook ==
    \E sym \in ManagerSymbols :
        /\ last' = Call("OrderBookManager.get_book", get_book(books, sym), {}, None)
        /\ UNCHANGED <<config, handler, added, accepted, held, highest, feeder, books>>

ManagerRemoveBook ==
    \E sym \in ManagerSymbols :
        /\ books' = remove_book(books, sym)
        /\ last' = Call("OrderBookManager.remove_book", None,
                        IF sym \in DOMAIN books THEN {"removed"} ELSE {}, None)
        /\ UNCHANGED <<config, handler, added, accepted, held, highest, feeder>>

NextManager ==
    \/ ManagerGetOrCreateBook
    \/ ManagerProcessUpdate
    \/ ManagerGetBook
    \/ ManagerRemoveBook

SpecManager == InitManager /\ [][NextManager]_vars

(***************************************************************************)
(* A stand-alone CircularBuffer(max_size), max_size chosen at              *)
(* construction, driven through its own methods.                           *)
(***************************************************************************)
BufferSizes == 0..2
LatestCounts == 0..3

BufferUpdates ==
    {MarketUpdate(1, BookSymbol, Float(1), Float(1), "bid", "add", sq) :
        sq \in {1, 2}}

InitBuffer ==
    /\ symbols = {}
    /\ sequence_gap_threshold = DefaultGapThreshold
    /\ max_size \in BufferSizes
    /\ buffer = <<>>
    /\ last_sequence_numbers = EmptyDict
    /\ book_update_counts = EmptyDict
    /\ books = EmptyDict
    /\ last = NoCall
    /\ added = <<>>
    /\ accepted = EmptyDict
    /\ held = None
    /\ highest = EmptyDict
    /\ feeder = Idle

BufferAdd ==
    \E update \in BufferUpdates :
        /\ Len(added) < MaxAdds
        /\ buffer' = Buffer_add(buffer, max_size, update)
        /\ added' = Append(added, update)
        /\ last' = Call("CircularBuffer.add", None, {}, None)
        /\ UNCHANGED <<config, last_sequence_numbers, book_update_counts, books,
                   accepted, held, highest, feeder>>

BufferGetLatest ==
    \E n \in LatestCounts :
        /\ last' = Call("CircularBuffer.get_latest", get_latest(buffer, n), {}, None)
        /\ UNCHANGED <<config, handler, added, accepted, held, highest, feeder, books>>

BufferClear ==
    /\ buffer' = Buffer_clear(buffer)
    /\ added' = <<>>
    /\ last' = Call("CircularBuffer.clear", None, {"cleared"}, None)
    /\ UNCHANGED <<config, last_sequence_numbers, book_update_counts, books,
                   accepted, held, highest, feeder>>

NextBuffer ==
    \/ BufferAdd
    \/ BufferGetLatest
    \/ BufferClear

SpecBuffer == InitBuffer /\ [][NextBuffer]_vars

(***************************************************************************)
(* A stand-alone OrderBook("AAPL") fed a ladder of Adds, update k at price *)
(* k with sequence number k: bids up to one more than the snapshot depth,  *)
(* then two asks.  A caller takes snapshots and holds the last one while   *)
(* the book goes on.                                                       *)
(***************************************************************************)
LadderBids == DefaultDepth + 1
LadderSteps == LadderBids + 2

LadderUpdate(k) ==
    MarketUpdate(2 * k, BookSymbol, Float(k), Float(1),
                 IF k <= LadderBids THEN "bid" ELSE "ask", "add", k)

InitSnap ==
    /\ symbols = {}
    /\ sequence_gap_threshold = DefaultGapThreshold
    /\ max_size = 0
    /\ buffer = <<>>
    /\ last_sequence_numbers = EmptyDict
    /\ book_update_counts = EmptyDict
    /\ books = (BookSymbol :> NewOrderBook(BookSymbol))
    /\ last = NoCall
    /\ added = <<>>
    /\ accepted = EmptyDict
    /\ held = None
    /\ highest = EmptyDict
    /\ feeder = Idle

SnapProcessUpdate ==
    /\ TheBook.sequence_number < LadderSteps
    /\ LET r == OrderBook_process_update(TheBook,
                                         LadderUpdate(TheBook.sequence_number + 1))
       IN  /\ books' = [books EXCEPT ![BookSymbol] = r.book]
           /\ last' = Call("OrderBook.process_update", r.ret, r.log, None)
    /\ UNCHANGED <<config, handler, added, accepted, held, highest, feeder>>

SnapClear ==
    /\ books' = [books EXCEPT ![BookSymbol] = OrderBook_clear(@)]
    /\ last' = Call("OrderBook.clear", None, {"cleared"}, None)
    /\ UNCHANGED <<config, handler, added, accepted, held, highest, feeder>>

\* the snapshot is made of new lists of new PriceLevel objects whose fields
\* are Decimals and ints: it shares nothing with the book that can change
SnapGetSnapshot ==
    /\ held' = get_snapshot(TheBook)
    /\ last' = Call("OrderBook.get_snapshot", None, {}, None)
    /\ UNCHANGED <<config, handler, added, accepted, highest, feeder, books>>

NextSnap ==
    \/ SnapProcessUpdate
    \/ SnapClear
    \/ SnapGetSnapshot

SpecSnap == InitSnap /\ [][NextSnap]_vars

(***************************************************************************)
(* A stand-alone OrderBook("AAPL") offered updates of two sizes at two     *)
(* prices, numbered as the book's last one (a duplicate) or the next, and  *)
(* cleared at any time, with the history of the sizes it accepted.         *)
(***************************************************************************)
MaxLevelSeq == 4

LevelPrices == {Float(0), Float(1)}
LevelSizes == {Float(1), Float(2)}

LevelUpdates(book) ==
    {MarketUpdate(1, BookSymbol, p, sz, sd, ty, sq) :
        p \in LevelPrices, sz \in LevelSizes, sd \in Side, ty \in UpdateType,
        sq \in {book.sequence_number, book.sequence_number + 1} \cap 1..MaxLevelSeq}

\* the history after process_update returned ret for the update
Accepted(h, update, ret) ==
    IF ret = TRUE /\ update.update_type \in {"add", "modify"}
    THEN DictSet(h, <<update.side, DecimalOfStr(update.price)>>,
                 DecimalOfStr(update.size))
    ELSE h

InitLevels ==
    /\ symbols = {}
    /\ sequence_gap_threshold = DefaultGapThreshold
    /\ max_size = 0
    /\ buffer = <<>>
    /\ last_sequence_numbers = EmptyDict
    /\ book_update_counts = EmptyDict
    /\ books = (BookSymbol :> NewOrderBook(BookSymbol))
    /\ last = NoCall
    /\ added = <<>>
    /\ accepted = EmptyDict
    /\ held = None
    /\ highest = EmptyDict
    /\ feeder = Idle

LevelsProcessUpdate ==
    \E update \in LevelUpdates(TheBook) :
        LET r == OrderBook_process_update(TheBook, update)
        IN  /\ books' = [books EXCEPT ![BookSymbol] = r.book]
            /\ accepted' = Accepted(accepted, update, r.ret)
            /\ last' = Call("OrderBook.process_update", r.ret, r.log,
                            IF r.ret THEN Applied(TheBook, update) ELSE None)
            /\ UNCHANGED <<config, handler, added, held, highest, feeder>>

LevelsClear ==
    /\ books' = [books EXCEPT ![BookSymbol] = OrderBook_clear(@)]
    /\ last' = Call("OrderBook.clear", None, {"cleared"}, None)
    /\ UNCHANGED <<config, handler, added, accepted, held, highest, feeder>>

NextLevels ==
    \/ LevelsProcessUpdate
    \/ LevelsClear

SpecLevels == InitLevels /\ [][NextLevels]_vars

(***************************************************************************)
(* Properties of the stand-alone OrderBook (SpecBook).  Each is stated for *)
(* every reachable book and every update that can be passed to it.         *)
(***************************************************************************)
MaxOf(S) == CHOOSE x \in S : \A y \in S : y <= x
MinOf(S) == CHOOSE x \in S : \A y \in S : x <= y

BigDepth == Cardinality(BookPrices) + 1

\* the positions of price p in what get_price_levels returns for a side
LevelsAt(book, sd, p) ==
    LET levels == get_price_levels(book, sd, BigDepth)
    IN  {i \in 1..Len(levels) : levels[i].price = p}

SameLedger(b1, b2) == b1.bids = b2.bids /\ b1.asks = b2.asks

\* the updates offered that carry the book's symbol and a sequence number
\* above the book's
FreshUpdates(book) ==
    {MarketUpdate(ts, book.symbol, p, sz, sd, ty, sq) :
        ts \in Times, p \in BookPrices, sz \in BookSizes, sd \in Side,
        ty \in UpdateType, sq \in (book.sequence_number + 1)..MaxBookSeq}

\* C1: process_update returns False and leaves bids, asks, sequence_number
\* and last_update_time unchanged whenever the update's symbol differs from
\* the book's or its sequence number is <= the book's, whatever its kind,
\* price and size.
C1_RejectedLeavesBook ==
    \A update \in AnyUpdates :
        (\/ update.symbol # TheBook.symbol
         \/ update.sequence_number <= TheBook.sequence_number)
        => LET r == OrderBook_process_update(TheBook, update)
           IN  /\ r.ret = FALSE
               /\ r.book.bids = TheBook.bids
               /\ r.book.asks = TheBook.asks
               /\ r.book.sequence_number = TheBook.sequence_number
               /\ r.book.last_update_time = TheBook.last_update_time

\* a duplicate of the book's current sequence number was just rejected by a
\* book that holds entries
C1_Witness ==
    /\ last.op = "OrderBook.process_update"
    /\ last.ret = FALSE
    /\ last.log = {"out-of-sequence"}
    /\ DOMAIN TheBook.bids # {}
    /\ TheBook.sequence_number = 2

\* C6: over every operation of the book (process_update accepted or
\* rejected, clear, the queries) sequence_number never decreases, and every
\* accepted update strictly increases it to exactly update.sequence_number
\* and sets last_update_time to update.timestamp.
C6_AcceptedAdvances ==
    \A update \in OwnAndForeign :
        LET r == OrderBook_process_update(TheBook, update)
        IN  /\ r.book.sequence_number >= TheBook.sequence_number
            /\ r.ret => /\ r.book.sequence_number = update.sequence_number
                        /\ r.book.sequence_number > TheBook.sequence_number
                        /\ r.book.last_update_time = update.timestamp

C6_SequenceMonotone ==
    /\ [][TheBook'.sequence_number >= TheBook.sequence_number]_vars
    /\ [](C6_AcceptedAdvances /\
          OrderBook_clear(TheBook).sequence_number >= TheBook.sequence_number)

\* an update was accepted after an earlier one and stamped the book with an
\* older time than the book's sequence number suggests
C6_Witness ==
    /\ last.op = "OrderBook.process_update"
    /\ last.ret = TRUE
    /\ TheBook.sequence_number = 3
    /\ TheBook.last_update_time = 1
    /\ Cardinality(DOMAIN TheBook.bids) = 2

\* C7: after an accepted Add at price p on side s, or an accepted Modify at
\* a price p that already has an entry on side s, side s has exactly one
\* entry at p, whose aggregate size is update.size: a previous size at p is
\* replaced, not summed.
C7_AddModifyReplaces ==
    \A update \in FreshUpdates(TheBook) :
        LET p == DecimalOfStr(update.price)
            r == OrderBook_process_update(TheBook, update)
            at == LevelsAt(r.book, update.side, p)
        IN  (\/ update.update_type = "add"
             \/ /\ update.update_type = "modify"
                /\ p \in DOMAIN book_side(TheBook, update.side))
            => /\ r.ret = TRUE
               /\ Cardinality(at) = 1
               /\ \A i \in at :
                    get_price_levels(r.book, update.side, BigDepth)[i].size
                        = DecimalOfStr(update.size)

\* an Add was accepted at a price that already had an entry
C7_Witness ==
    /\ last.op = "OrderBook.process_update"
    /\ last.ret = TRUE
    /\ last.applied.kind = "add"
    /\ last.applied.effect = "replaced"
    /\ \E p \in DOMAIN book_side(TheBook, last.applied.side) :
          LET level == book_side(TheBook, last.applied.side)[p]
          IN  /\ DOMAIN level.orders = {Str(TheBook.sequence_number)}
              /\ total_size(level) = 1

\* C8: a Modify with a fresh sequence number at a price that has no entry
\* on its side is accepted, advances sequence_number and last_update_time,
\* and leaves the entries and sizes of both sides exactly as before.
C8_ModifyAbsentIsNoOp ==
    \A update \in FreshUpdates(TheBook) :
        LET p == DecimalOfStr(update.price)
            r == OrderBook_process_update(TheBook, update)
        IN  (/\ update.update_type = "modify"
             /\ p \notin DOMAIN book_side(TheBook, update.side))
            => /\ r.ret = TRUE
               /\ r.book.sequence_number = update.sequence_number
               /\ r.book.last_update_time = update.timestamp
               /\ r.book.bids = TheBook.bids
               /\ r.book.asks = TheBook.asks

\* a Modify at a price without an entry was accepted by a book that holds an
\* entry at another price of the same side
C8_Witness ==
    /\ last.op = "OrderBook.process_update"
    /\ last.ret = TRUE
    /\ last.applied.kind = "modify"
    /\ last.applied.effect = "none"
    /\ DOMAIN book_side(TheBook, last.applied.side) # {}
    /\ TheBook.sequence_number = 2

\* the prices in what get_price_levels returns for a side at any depth
ListedPrices(book, sd) ==
    UNION {LET levels == get_price_levels(book, sd, d)
           IN  {levels[i].price : i \in 1..Len(levels)} : d \in 0..BigDepth}

BookKeys == {DecimalOfStr(pr) : pr \in BookPrices}

\* the (side, price) pairs that have an entry in b2 and none in b1
Created(b1, b2) ==
    {sp \in Side \X BookKeys :
        /\ sp[2] \notin DOMAIN book_side(b1, sp[1])
        /\ sp[2] \in DOMAIN book_side(b2, sp[1])}

\* C9: after an accepted Delete at price p on side s, side s has no entry at
\* p and get_price_levels(s) does not contain p, until a later accepted Add
\* at p (no other operation gives a side an entry it did not have); a Delete
\* at a price with no entry is accepted, advances the sequence number and
\* changes no entry.
C9_DeleteRemoves ==
    /\ Created(TheBook, OrderBook_clear(TheBook)) = {}
    /\ \A update \in OwnAndForeign :
        LET p == DecimalOfStr(update.price)
            r == OrderBook_process_update(TheBook, update)
        IN  /\ Created(TheBook, r.book) \subseteq
                 (IF r.ret /\ update.update_type = "add"
                  THEN {<<update.side, p>>} ELSE {})
            /\ (/\ update.symbol = TheBook.symbol
                /\ update.sequence_number > TheBook.sequence_number
                /\ update.update_type = "delete")
               => /\ r.ret = TRUE
                  /\ r.book.sequence_number = update.sequence_number
                  /\ p \notin DOMAIN book_side(r.book, update.side)
                  /\ p \notin ListedPrices(r.book, update.side)
                  /\ p \notin DOMAIN book_side(TheBook, update.side)
                     => SameLedger(r.book, TheBook)

\* a Delete removed an entry and left another entry on the same side
C9_Witness ==
    /\ last.op = "OrderBook.process_update"
    /\ last.ret = TRUE
    /\ last.applied.kind = "delete"
    /\ last.applied.effect = "removed"
    /\ DOMAIN book_side(TheBook, last.applied.side) # {}
    /\ DOMAIN book_side(TheBook, last.applied.side) # BookKeys

\* the level get_top_of_book must return for the entry at price p of a side
EntryAt(d, p) == PriceLevel(p, total_size(d[p]), order_count(d[p]))

TopIsBest(book) ==
    LET top == get_top_of_book(book)
    IN  /\ top.best_bid = IF DOMAIN book.bids = {} THEN None
                          ELSE EntryAt(book.bids, MaxOf(DOMAIN book.bids))
        /\ top.best_ask = IF DOMAIN book.asks = {} THEN None
                          ELSE EntryAt(book.asks, MinOf(DOMAIN book.asks))

\* C10: after any sequence of accepted Add, Modify and Delete updates,
\* get_top_of_book returns as best bid the level at the maximum bid price
\* and as best ask the level at the minimum ask price, and None for a side
\* with no entries; after a Delete of the current best level the next-best
\* remaining level is the top of book.
C10_TopOfBook ==
    /\ TopIsBest(TheBook)
    /\ \A update \in FreshUpdates(TheBook) :
        LET p == DecimalOfStr(update.price)
            d == book_side(TheBook, update.side)
            r == OrderBook_process_update(TheBook, update)
            top == get_top_of_book(r.book)
        IN  (/\ update.update_type = "delete"
             /\ Cardinality(DOMAIN d) >= 2
             /\ p = (IF update.side = "bid" THEN MaxOf(DOMAIN d) ELSE MinOf(DOMAIN d)))
            => IF update.side = "bid"
               THEN top.best_bid = EntryAt(d, MaxOf(DOMAIN d \ {p}))
               ELSE top.best_ask = EntryAt(d, MinOf(DOMAIN d \ {p}))

\* a Delete removed the best bid and a lower bid is now the top of book: the
\* bid at 0 of update 1 is all that is left after a second Add and the Delete
\* of what that Add inserted, on the bid side, so above 0
C10_Witness ==
    /\ last.op = "OrderBook.process_update"
    /\ last.ret = TRUE
    /\ last.applied.kind = "delete"
    /\ last.applied.effect = "removed"
    /\ last.applied.side = "bid"
    /\ TheBook.sequence_number = 3
    /\ DOMAIN TheBook.asks = {}
    /\ DOMAIN TheBook.bids = {0}
    /\ DOMAIN TheBook.bids[0].orders = {Str(1)}
    /\ get_top_of_book(TheBook).best_bid.price = 0

\* C16: process_update is all-or-nothing: in every outcome either it
\* returns True and the ledger change, last_update_time and sequence_number
\* are all applied, or it returns False and bids, asks, last_update_time and
\* sequence_number are all unchanged; no outcome leaves the ledger changed
\* with the sequence number not advanced, or the sequence number advanced
\* after a False return.
C16_AllOrNothing ==
    \A update \in OwnAndForeign :
        LET r == OrderBook_process_update(TheBook, update)
            sd == update.side
            other == IF sd = "bid" THEN "ask" ELSE "bid"
        IN  /\ r.ret \in BOOLEAN
            /\ r.ret = TRUE =>
                  /\ book_side(r.book, sd) = ApplyToSide(book_side(TheBook, sd), update)
                  /\ book_side(r.book, other) = book_side(TheBook, other)
                  /\ r.book.last_update_time = update.timestamp
                  /\ r.book.sequence_number = update.sequence_number
            /\ r.ret = FALSE => r.book = TheBook
            /\ ~SameLedger(r.book, TheBook)
                  => r.book.sequence_number > TheBook.sequence_number
            /\ r.book.sequence_number # TheBook.sequence_number => r.ret = TRUE
            /\ r.book.last_update_time # TheBook.last_update_time => r.ret = TRUE

\* an update was accepted that replaced the size of an entry and moved the
\* book's time back: ledger, time and sequence number all changed
C16_Witness ==
    /\ last.op = "OrderBook.process_update"
    /\ last.ret = TRUE
    /\ last.applied.kind = "modify"
    /\ last.applied.effect = "replaced"
    /\ TheBook.sequence_number = 3
    /\ TheBook.last_update_time = 1
    /\ \E p \in DOMAIN book_side(TheBook, last.applied.side) :
          /\ DOMAIN book_side(TheBook, last.applied.side)[p].orders = {Str(3)}
          /\ total_size(book_side(TheBook, last.applied.side)[p]) = 0

\* price p is strictly better than price q on side sd
Better(sd, p, q) == IF sd = "bid" THEN p > q ELSE p < q

\* C11: for every side and every depth d >= 0, get_price_levels(side, d)
\* returns exactly min(d, number of entries of the side) levels, no price
\* twice, strictly descending for bids and strictly ascending for asks, and
\* they are the d best prices of the side: no entry left out is better than
\* one that is listed.
C11_PriceLevels ==
    \A sd \in Side : \A d \in 0..BigDepth :
        LET side == book_side(TheBook, sd)
            n == Cardinality(DOMAIN side)
            levels == get_price_levels(TheBook, sd, d)
            listed == {levels[i].price : i \in 1..Len(levels)}
        IN  /\ Len(levels) = (IF d < n THEN d ELSE n)
            /\ Cardinality(listed) = Len(levels)
            /\ listed \subseteq DOMAIN side
            /\ \A i \in 1..Len(levels) : \A j \in 1..Len(levels) :
                  i < j => Better(sd, levels[i].price, levels[j].price)
            /\ \A p \in (DOMAIN side) \ listed : \A q \in listed :
                  Better(sd, q, p)

\* get_price_levels was called on a book with two bids and an ask, where
\* depth 1 cuts the bids short
C11_Witness ==
    /\ last.op = "OrderBook.get_price_levels"
    /\ Cardinality(DOMAIN TheBook.bids) = 2
    /\ Cardinality(DOMAIN TheBook.asks) = 1
    /\ Len(get_price_levels(TheBook, "bid", 1)) = 1
    /\ get_price_levels(TheBook, "bid", 1)[1].price = MaxOf(DOMAIN TheBook.bids)

(***************************************************************************)
(* Properties of the pipeline (Spec).  Each is stated for every reachable  *)
(* state of the handler and every update that can be passed to it.         *)
(***************************************************************************)
Recognized == {update \in FeedUpdates : update.symbol \in symbols}

Registered(update) == update.symbol \in DOMAIN books

\* the book holds the entry of the Add `update` and nothing else
HoldsOnly(book, update) ==
    LET p == DecimalOfStr(update.price)
        mine == book_side(book, update.side)
        other == book_side(book, IF update.side = "bid" THEN "ask" ELSE "bid")
    IN  /\ DOMAIN mine = {p}
        /\ total_size(mine[p]) = DecimalOfStr(update.size)
        /\ DOMAIN other = {}

\* C2: whenever process_update classifies an update as a large gap
\* (gap > T), the update is still applied after the reset: when the call
\* returns the symbol's book has sequence_number = update.sequence_number
\* and, if the update is an Add, the book holds exactly that one entry.
C2_LargeGapStillApplied ==
    \A update \in Recognized :
        IsLargeGap(update)
        => LET r == FeedHandler_process_update(update)
               book == r.books[update.symbol]
           IN  /\ book.sequence_number = update.sequence_number
               /\ update.update_type = "add" => HoldsOnly(book, update)

\* C3: for every recognized symbol the handler's last observed sequence
\* number never decreases over any sequence of process_update calls,
\* duplicates and out-of-order updates included.
C3_LastSeqNeverDecreases ==
    [][\A sym \in DOMAIN last_sequence_numbers :
          last_sequence_numbers'[sym] >= last_sequence_numbers[sym]]_vars

\* C4: a stale update is dropped without effect on the ledger: if
\* update.sequence_number <= the sequence_number of the symbol's book, the
\* book's bids and asks after process_update are what they were before.
C4_StaleLeavesLedger ==
    \A update \in Recognized :
        (/\ Registered(update)
         /\ update.sequence_number <= books[update.symbol].sequence_number)
        => SameLedger(FeedHandler_process_update(update).books[update.symbol],
                      books[update.symbol])

\* what the ledger holds when the update is forwarded without a reset, and
\* when it is forwarded after one
Unreset(update) == Manager_process_update(books, update).books

AfterReset(update) ==
    Manager_process_update(handle_large_sequence_gap(books, update.symbol),
                           update).books

\* C5: the symbol's book is cleared exactly when gap =
\* update.sequence_number - last_observed_sequence - 1 is strictly greater
\* than T: with T = 10 a gap of exactly 10 does not clear the book and the
\* update is forwarded and applied, a gap of 11 clears the book before the
\* update is forwarded, and for gap <= 0 nothing is cleared.
C5_GapBoundary ==
    \A update \in Recognized :
        LET gap == update.sequence_number - last_seq(update.symbol) - 1
            r == FeedHandler_process_update(update)
        IN  /\ sequence_gap_threshold = 10
            /\ r.books = (IF gap > 10 THEN AfterReset(update) ELSE Unreset(update))
            /\ gap = 10 => /\ r.books = Unreset(update)
                           /\ r.books[update.symbol].sequence_number
                                  = update.sequence_number
            /\ gap = 11 => r.books = AfterReset(update)
            /\ gap <= 0 => r.books = Unreset(update)

\* the part of C5 that is about the boundary alone
C5_BoundaryOnly ==
    \A update \in Recognized :
        LET gap == update.sequence_number - last_seq(update.symbol) - 1
            r == FeedHandler_process_update(update)
        IN  r.books = (IF gap > 10 THEN AfterReset(update) ELSE Unreset(update))

\* both sides hold entries and the highest bid is not below the lowest ask
CrossedLedger(book) ==
    /\ DOMAIN book.bids # {}
    /\ DOMAIN book.asks # {}
    /\ MaxOf(DOMAIN book.bids) >= MinOf(DOMAIN book.asks)

\* C12: for every update of a recognized symbol that process_update
\* processes, if afterwards the symbol's book has both sides non-empty and
\* best bid price >= best ask price, a crossed-book error event is emitted
\* during that call: on every such update, not only on the one that first
\* crossed the book.
C12_CrossedFlagged ==
    \A update \in Recognized :
        LET r == FeedHandler_process_update(update)
        IN  CrossedLedger(r.books[update.symbol]) => "crossed book" \in r.log

\* the part of C12 that is about the updates the ledger accepts
C12_AcceptedFlagged ==
    \A update \in Recognized :
        LET r == FeedHandler_process_update(update)
        IN  /\ (/\ Manager_process_update(books, update).ret
                /\ CrossedLedger(r.books[update.symbol]))
               => "crossed book" \in r.log
            /\ "crossed book" \in r.log => CrossedLedger(r.books[update.symbol])

Unknown == {update \in FeedUpdates : update.symbol \notin symbols}

\* C13: an update whose symbol is not in the configured symbol set is
\* rejected with no further processing: process_update returns None and the
\* buffer, last_sequence_numbers, book_update_counts and the manager's
\* registry and books are unchanged; no book is created for the symbol.
C13_UnknownSymbolDropped ==
    \A update \in Unknown :
        LET r == FeedHandler_process_update(update)
        IN  /\ r.ret = None
            /\ r.raised = FALSE
            /\ r.buffer = buffer
            /\ r.last_sequence_numbers = last_sequence_numbers
            /\ r.book_update_counts = book_update_counts
            /\ DOMAIN r.books = DOMAIN books
            /\ r.books = books
            /\ update.symbol \notin DOMAIN r.books

\* an update of an unknown symbol was just dropped by a handler that holds
\* an update in its buffer and a book with an entry
C13_Witness ==
    /\ last.op = "FeedHandler.process_update"
    /\ last.ret = None
    /\ last.log = {"unknown symbol"}
    /\ Len(buffer) = 1
    /\ buffer[1].symbol = BookSymbol
    /\ BookSymbol \in DOMAIN books
    /\ DOMAIN books[BookSymbol].bids # {}
    /\ last_sequence_numbers = (BookSymbol :> 1)

\* the update is stale or a duplicate for the symbol's book
Stale(update) ==
    /\ Registered(update)
    /\ update.sequence_number <= books[update.symbol].sequence_number

\* C15: FeedHandler.process_update and OrderBookManager.process_update
\* never raise for expected conditions: for an update with an unknown
\* symbol, a stale or duplicate sequence number, or a small or large
\* sequence gap the call returns normally: None for an unknown symbol,
\* otherwise the update, and False or True from the manager.
C15_NoRaiseOnExpected ==
    \A update \in FeedUpdates :
        LET r == FeedHandler_process_update(update)
            m == Manager_process_update(books, update)
        IN  (\/ update.symbol \notin symbols
             \/ Stale(update)
             \/ IsSmallGap(update)
             \/ IsLargeGap(update))
            => /\ r.raised = FALSE
               /\ "error" \notin r.log
               /\ r.ret = (IF update.symbol \in symbols THEN update ELSE None)
               /\ m.ret \in BOOLEAN
               /\ Stale(update) => m.ret = FALSE
               /\ update.symbol \in DOMAIN m.books

\* a stale update that the handler took for a large gap was just processed:
\* the book was cleared, the ledger rejected the update, the call returned it
C15_Witness ==
    /\ last.op = "FeedHandler.process_update"
    /\ last.log = {"large gap", "cleared", "out-of-sequence"}
    /\ last.ret \in FeedUpdates
    /\ last.ret.symbol = BookSymbol
    /\ last.ret.sequence_number = books[BookSymbol].sequence_number

(***************************************************************************)
(* Properties of the handler of two symbols (SpecPair).                    *)
(***************************************************************************)
\* C14: the periodic health audit never crashes on well-formed but
\* anomalous book states: for every book state reachable from well-formed
\* updates (prices including 0, crossed, one-sided or empty books),
\* check_all_books completes without raising.
C14_AuditCompletes ==
    \A order \in Orders(symbols) : check_all_books(order, books).raised = FALSE

\* every book of bks1 but that of sym is in bks2 as it is in bks1, and bks2
\* registers no symbol but those of bks1 and sym
OthersUntouched(bks1, bks2, sym) ==
    /\ DOMAIN bks2 \subseteq (DOMAIN bks1) \cup {sym}
    /\ \A other \in (DOMAIN bks1) \ {sym} :
          /\ other \in DOMAIN bks2
          /\ bks2[other].bids = bks1[other].bids
          /\ bks2[other].asks = bks1[other].asks
          /\ bks2[other].sequence_number = bks1[other].sequence_number
          /\ bks2[other].last_update_time = bks1[other].last_update_time

\* C17: OrderBookManager.process_update(update) and
\* FeedHandler.process_update(update) change the state of at most the one
\* book registered for update.symbol: the bids, asks, sequence_number and
\* last_update_time of every book of another symbol are unchanged, also
\* when a large gap resets update.symbol's book.
C17_OneBookChanged ==
    \A update \in PairUpdates :
        /\ OthersUntouched(books, Manager_process_update(books, update).books,
                           update.symbol)
        /\ OthersUntouched(books, FeedHandler_process_update(update).books,
                           update.symbol)

\* a large gap just reset the book of AAPL, which then took the update, while
\* the book of MSFT holds a bid and an ask
C17_Witness ==
    /\ last.op = "FeedHandler.process_update"
    /\ last.log = {"large gap", "cleared"}
    /\ last.ret \in PairUpdates
    /\ last.ret.symbol = BookSymbol
    /\ DOMAIN books = {BookSymbol, OtherSymbol}
    /\ Cardinality(DOMAIN books[BookSymbol].bids) = 1
    /\ DOMAIN books[BookSymbol].asks = {}
    /\ books[BookSymbol].sequence_number = T + 4
    /\ book_update_counts[BookSymbol] = 3
    /\ DOMAIN books[OtherSymbol].bids # {}
    /\ DOMAIN books[OtherSymbol].asks # {}

(***************************************************************************)
(* Properties of the stand-alone OrderBookManager (SpecManager).           *)
(***************************************************************************)
\* what the lifecycle says of one symbol in the current registry
LifecycleOf(sym) ==
    LET created == get_or_create_book(books, sym)
        again == get_or_create_book(created, sym)
        removed == remove_book(books, sym)
    IN  /\ get_book(created, sym) # None
        /\ get_book(created, sym) = created[sym]
        /\ get_book(created, sym).symbol = sym
        /\ sym \in DOMAIN books => created[sym] = books[sym]
        /\ OthersUntouched(books, created, sym)
        /\ again = created
        /\ get_book(again, sym).bids = get_book(created, sym).bids
        /\ get_book(again, sym).asks = get_book(created, sym).asks
        /\ get_book(again, sym).sequence_number
               = get_book(created, sym).sequence_number
        /\ get_book(removed, sym) = None
        /\ get_book(remove_book(created, sym), sym) = None
        /\ OthersUntouched(books, removed, sym)
        /\ DOMAIN removed = (DOMAIN books) \ {sym}
        /\ sym \notin DOMAIN books => removed = books
        /\ sym \notin DOMAIN books => get_book(books, sym) = None

\* C18: get_or_create_book(s) followed by get_book(s) returns the same
\* book, and a repeated get_or_create_book(s) returns that same book with
\* its entries and sequence number unchanged; after remove_book(s),
\* get_book(s) returns None; get_book never creates a book and remove_book
\* of an absent symbol changes nothing.
C18_ManagerLifecycle ==
    /\ [][last'.op = "OrderBookManager.get_book" => books' = books]_vars
    /\ [](\A sym \in ManagerSymbols : LifecycleOf(sym))

\* get_or_create_book was just called for a symbol whose book holds an
\* entry and returned that book, while the other symbol has no book
C18_Witness ==
    /\ last.op = "OrderBookManager.get_or_create_book"
    /\ last.log = {}
    /\ DOMAIN books = {BookSymbol}
    /\ last.ret = books[BookSymbol]
    /\ books[BookSymbol].sequence_number = 2
    /\ DOMAIN books[BookSymbol].bids # {}

(***************************************************************************)
(* Properties of the stand-alone CircularBuffer (SpecBuffer).              *)
(***************************************************************************)
\* the k last elements of s, in the order of s
LastOf(s, k) == [i \in 1..k |-> s[Len(s) - k + i]]

Least(a, b) == IF a < b THEN a ELSE b

\* C19: after any sequence of add calls the buffer holds at most max_size
\* updates, and its contents are exactly the min(k, max_size) most recently
\* added updates in insertion order, k the number of adds since creation or
\* the last clear: the oldest update is the one evicted when full.
C19_BufferHoldsLatest ==
    /\ Len(buffer) <= max_size
    /\ Len(buffer) = Least(Len(added), max_size)
    /\ buffer = LastOf(added, Least(Len(added), max_size))

\* a buffer of capacity 2 took four adds, the last two of them different
C19_Witness ==
    /\ last.op = "CircularBuffer.add"
    /\ max_size = 2
    /\ Len(added) = 4
    /\ added[3] # added[4]
    /\ added[1] # added[3]
    /\ buffer = <<added[3], added[4]>>

\* C20: for every n >= 0, n = 0 and n larger than the current length
\* included, get_latest(n) returns exactly the min(n, current length) most
\* recently added updates, oldest first, and does not change the buffer.
C20_GetLatest ==
    \A n \in LatestCounts :
        get_latest(buffer, n) = LastOf(buffer, Least(n, Len(buffer)))

\* the part of C20 that is about n >= 1
C20_PositiveCounts ==
    \A n \in LatestCounts \ {0} :
        get_latest(buffer, n) = LastOf(buffer, Least(n, Len(buffer)))

(***************************************************************************)
(* Properties of the book and its snapshots (SpecSnap).                    *)
(***************************************************************************)
\* the n best prices of a set for a side, best first
RECURSIVE BestFirst(_, _, _)
BestFirst(prices, sd, n) ==
    IF n = 0 \/ prices = {} THEN <<>>
    ELSE LET best == IF sd = "bid" THEN MaxOf(prices) ELSE MinOf(prices)
         IN  <<best>> \o BestFirst(prices \ {best}, sd, n - 1)

\* what a snapshot of the book must hold
Projection(book) ==
    LET side(sd) ==
          LET d == book_side(book, sd)
              best == BestFirst(DOMAIN d, sd, 10)
          IN  [i \in 1..Len(best) |-> EntryAt(d, best[i])]
    IN  [symbol |-> book.symbol, timestamp |-> book.last_update_time,
         bids |-> side("bid"), asks |-> side("ask"),
         sequence_number |-> book.sequence_number]

\* C21: a snapshot returned by get_snapshot equals the book's projection at
\* the moment of the call (at most 10 best-first levels per side,
\* sequence_number = the book's sequence_number, timestamp =
\* last_update_time) and keeps exactly those values after any later
\* process_update or clear on the book.
C21_SnapshotStable ==
    [][IF last'.op = "OrderBook.get_snapshot"
       THEN held' = Projection(TheBook) /\ books' = books
       ELSE held' = held]_vars

\* the book was cleared while a caller holds the snapshot taken when the
\* book had eleven bids: it still lists the ten best of them
C21_Witness ==
    /\ last.op = "OrderBook.clear"
    /\ DOMAIN TheBook.bids = {}
    /\ held # None
    /\ held.sequence_number = LadderBids
    /\ held.timestamp = 2 * LadderBids
    /\ Len(held.bids) = 10
    /\ held.bids[1].price = LadderBids
    /\ held.bids[10].price = 2

(***************************************************************************)
(* Further properties of the pipeline (Spec).                              *)
(***************************************************************************)
\* the highest sequence number processed so far for a symbol, 0 if none
HighestOf(sym) == IF sym \in DOMAIN highest THEN highest[sym] ELSE 0

\* C22: FeedHandler.process_update clears a symbol's book only if
\* update.sequence_number exceeds the highest sequence number previously
\* processed for that symbol by more than T+1.
C22_ClearsOnlyBeyondHighest ==
    \A update \in Recognized :
        "cleared" \in FeedHandler_process_update(update).log
        => update.sequence_number > HighestOf(update.symbol) + T + 1

(***************************************************************************)
(* Further properties of the stand-alone OrderBook (SpecBook).             *)
(***************************************************************************)
OtherSide(sd) == IF sd = "bid" THEN "ask" ELSE "bid"

\* the entry an Add or a Modify would put at price p crosses the other side
Crosses(book, sd, p) ==
    \E q \in DOMAIN book_side(book, OtherSide(sd)) :
        IF sd = "bid" THEN p >= q ELSE p <= q

\* C23: an accepted update changes at most one ledger entry, the one at
\* update.price on update.side: every other price on that side and the whole
\* opposite side are unchanged, and a crossing update is stored as is, no
\* entry of the other side being matched or removed.
C23_OneEntryChanged ==
    \A update \in FreshUpdates(TheBook) :
        LET p == DecimalOfStr(update.price)
            sd == update.side
            r == OrderBook_process_update(TheBook, update)
            before == book_side(TheBook, sd)
            after == book_side(r.book, sd)
        IN  /\ r.ret = TRUE
            /\ book_side(r.book, OtherSide(sd)) = book_side(TheBook, OtherSide(sd))
            /\ (DOMAIN after) \ {p} = (DOMAIN before) \ {p}
            /\ \A q \in (DOMAIN before) \ {p} : after[q] = before[q]
            /\ (/\ Crosses(TheBook, sd, p)
                /\ \/ update.update_type = "add"
                   \/ update.update_type = "modify" /\ p \in DOMAIN before)
               => /\ p \in DOMAIN after
                  /\ total_size(after[p]) = DecimalOfStr(update.size)

\* an Add was accepted at a price that crosses the other side, and both
\* entries are in the ledger
C23_Witness ==
    /\ last.op = "OrderBook.process_update"
    /\ last.ret = TRUE
    /\ last.applied.kind = "add"
    /\ last.applied.effect = "inserted"
    /\ last.applied.side = "bid"
    /\ DOMAIN TheBook.bids = {1}
    /\ DOMAIN TheBook.asks = {0, 1}
    /\ DOMAIN TheBook.bids[1].orders = {Str(TheBook.sequence_number)}

\* C25: OrderBook.clear() empties both sides and leaves sequence_number and
\* last_update_time as they were, so after a reset the book still rejects
\* every update whose sequence number is <= the retained value.
C25_ClearKeepsSequence ==
    LET cleared == OrderBook_clear(TheBook)
    IN  /\ DOMAIN cleared.bids = {}
        /\ DOMAIN cleared.asks = {}
        /\ cleared.sequence_number = TheBook.sequence_number
        /\ cleared.last_update_time = TheBook.last_update_time
        /\ cleared.symbol = TheBook.symbol
        /\ \A update \in OwnAndForeign :
              update.sequence_number <= TheBook.sequence_number
              => LET r == OrderBook_process_update(cleared, update)
                 IN  r.ret = FALSE /\ r.book = cleared

\* a book that had reached sequence number 2 at time 2 has just been cleared
C25_Witness ==
    /\ last.op = "OrderBook.clear"
    /\ TheBook.sequence_number = 2
    /\ TheBook.last_update_time = 2
    /\ DOMAIN TheBook.bids = {}
    /\ DOMAIN TheBook.asks = {}

(***************************************************************************)
(* Properties of the book and the sizes it accepted (SpecLevels).          *)
(***************************************************************************)
\* the PriceLevel is the one contribution last accepted at its price
OneContribution(sd, level) ==
    /\ level.order_count = 1
    /\ <<sd, level.price>> \in DOMAIN accepted
    /\ level.size = accepted[<<sd, level.price>>]

AllOneContribution(sd, levels) ==
    \A i \in 1..Len(levels) : OneContribution(sd, levels[i])

\* C30: every ledger entry holds exactly one contribution: every PriceLevel
\* returned by get_price_levels, get_top_of_book and get_snapshot has
\* order_count = 1 and size = the size of the last accepted Add or Modify at
\* that price on that side.
C30_OneContribution ==
    LET top == get_top_of_book(TheBook)
        snapshot == get_snapshot(TheBook)
    IN  /\ \A sd \in Side : \A p \in DOMAIN book_side(TheBook, sd) :
              Cardinality(DOMAIN book_side(TheBook, sd)[p].orders) = 1
        /\ \A sd \in Side : \A depth \in 0..3 :
              AllOneContribution(sd, get_price_levels(TheBook, sd, depth))
        /\ top.best_bid # None => OneContribution("bid", top.best_bid)
        /\ top.best_ask # None => OneContribution("ask", top.best_ask)
        /\ AllOneContribution("bid", snapshot.bids)
        /\ AllOneContribution("ask", snapshot.asks)

\* an Add of size 2 replaced an entry of another size: the level lists one
\* order of size 2
C30_Witness ==
    /\ last.op = "OrderBook.process_update"
    /\ last.ret = TRUE
    /\ last.applied.effect = "replaced"
    /\ last.applied.side = "bid"
    /\ TheBook.sequence_number >= 3
    /\ get_top_of_book(TheBook).best_bid = PriceLevel(1, 2, 1)
    /\ get_price_levels(TheBook, "bid", 2) = <<PriceLevel(1, 2, 1), PriceLevel(0, 1, 1)>>
    /\ accepted[<<"bid", 1>>] = 2

(***************************************************************************)
(* Further properties of the pipeline (Spec), continued.                   *)
(***************************************************************************)
\* C26: every recognized update is appended to the buffer, whatever the
\* ledger decided: when process_update returns, the update is the newest
\* element of the buffer (capacity >= 1) even if the ledger rejected it, and
\* the ledger's decision does not depend on the buffer.
C26_BufferedWhateverTheLedger ==
    \A update \in Recognized :
        LET r == FeedHandler_process_update(update)
            n == Len(r.buffer)
        IN  /\ max_size >= 1 => (n >= 1 /\ r.buffer[n] = update)
            /\ n <= max_size
            /\ r.books = LedgerDecision(update).books
            /\ ("out-of-sequence" \in r.log) = (LedgerDecision(update).ret = FALSE)

\* the ledger rejected a stale update, which is in the buffer in place of
\* the update that was there
C26_Witness ==
    /\ last.op = "FeedHandler.process_update"
    /\ last.log = {"out-of-sequence"}
    /\ buffer = <<last.ret>>
    /\ BookSymbol \in DOMAIN books
    /\ last.ret.sequence_number < books[BookSymbol].sequence_number
    /\ DOMAIN books[BookSymbol].bids # {}

\* C28: for every registered book, book.sequence_number equals the maximum
\* sequence number among all updates processed for that symbol (0 if none is
\* positive), hence is >= the handler's last_sequence_numbers entry for the
\* symbol.
C28_BookAtHighest ==
    \A sym \in DOMAIN books :
        /\ books[sym].sequence_number = HighestOf(sym)
        /\ sym \in DOMAIN last_sequence_numbers
        /\ books[sym].sequence_number >= last_sequence_numbers[sym]

\* after a large gap, a stale update and a reset for a gap that was none,
\* the book is still at the highest number processed, above the handler's
C28_Witness ==
    /\ last.op = "FeedHandler.process_update"
    /\ "cleared" \in last.log
    /\ BookSymbol \in DOMAIN books
    /\ books[BookSymbol].sequence_number = T + 3
    /\ highest[BookSymbol] = T + 3
    /\ last_sequence_numbers[BookSymbol] = T + 2

\* C29: process_update returns None if and only if the update's symbol is
\* not configured; for a recognized symbol it returns the update itself for
\* every gap class (none, small, large) and also when the ledger rejected
\* the update.
C29_ReturnsUpdate ==
    \A update \in FeedUpdates :
        LET r == FeedHandler_process_update(update)
        IN  /\ r.raised = FALSE
            /\ (r.ret = None) = (update.symbol \notin symbols)
            /\ update.symbol \in symbols => r.ret = update

\* the update returned came after a small gap and was rejected by the ledger
C29_Witness ==
    /\ last.op = "FeedHandler.process_update"
    /\ last.log = {"small gap", "out-of-sequence"}
    /\ last.ret \in FeedUpdates
    /\ last.ret.symbol \in symbols
    /\ last.ret.sequence_number = T + 1
    /\ last_sequence_numbers[BookSymbol] = T + 1

(***************************************************************************)
(* Properties of the tasks on the event loop (SpecAsync).                  *)
(***************************************************************************)
ReaderOps == {"MarketDataApp.monitor_markets", "AnalyticsEngine._calculate_metrics"}

QueryOps == ReaderOps \cup {"FeedHandler.check_all_books"}

\* C24: the queries and audits are read-only: get_top_of_book,
\* get_price_levels, get_snapshot, FeedHandler._check_book_state and
\* FeedHandler.check_all_books never change any book's bids, asks,
\* sequence_number or last_update_time, nor the registry, the buffer or the
\* handler's sequence trackers; a crossed book is exactly the same after
\* being flagged.
C24_QueriesReadOnly ==
    /\ [][last'.op \in QueryOps
          => UNCHANGED <<books, buffer, last_sequence_numbers,
                         book_update_counts>>]_vars
    /\ [](\A update \in AsyncUpdates :
            LET r == FeedHandler_process_update(update)
                sym == update.symbol
            IN  /\ r.books = LedgerDecision(update).books
                /\ r.buffer = Buffer_add(buffer, max_size, update)
                /\ r.last_sequence_numbers
                     = DictSet(last_sequence_numbers, sym, update.sequence_number)
                /\ "crossed book" \in r.log
                   => /\ IsCrossed(r.books[sym])
                      /\ FeedHandler_get_book_snapshot(r.books, sym).books = r.books
                      /\ FeedHandler_get_top_of_book(r.books, sym).books = r.books)

\* the audit has just gone over a crossed book that a reader holds a
\* snapshot of: the book is as the snapshot says
C24_Witness ==
    /\ last.op = "FeedHandler.check_all_books"
    /\ BookSymbol \in DOMAIN books
    /\ IsCrossed(books[BookSymbol])
    /\ held = get_snapshot(books[BookSymbol])
    /\ Len(buffer) = 1
    /\ book_update_counts[BookSymbol] = 2

\* the book was cleared for a large gap by the update that is being
\* processed or was processed last, and has not received that update
ClearedUntriggered ==
    \/ feeder.pc = "line 44"
    \/ /\ last.op = "FeedHandler.process_update"
       /\ {"cleared", "out-of-sequence"} \subseteq last.log

EntryRemoved ==
    \E sd \in Side : (DOMAIN book_side(TheBook, sd)) \ (DOMAIN book_side(TheBook, sd)') # {}

\* C31: an accepted Add (or Modify at an existing price) with size 0 is not
\* treated as a removal: the side keeps an entry at that price with
\* aggregate size 0 and order_count 1, which get_price_levels and
\* get_top_of_book return like any other level (it can be the best bid or
\* ask); only Delete or clear removes an entry.
C31_ZeroSizeStays ==
    /\ [](\A update \in FreshUpdates(TheBook) :
            LET p == DecimalOfStr(update.price)
                sd == update.side
                r == OrderBook_process_update(TheBook, update)
                after == book_side(r.book, sd)
                levels == get_price_levels(r.book, sd, BigDepth)
                top == get_top_of_book(r.book)
            IN  (/\ DecimalOfStr(update.size) = 0
                 /\ \/ update.update_type = "add"
                    \/ /\ update.update_type = "modify"
                       /\ p \in DOMAIN book_side(TheBook, sd))
                => /\ r.ret = TRUE
                   /\ p \in DOMAIN after
                   /\ total_size(after[p]) = 0
                   /\ order_count(after[p]) = 1
                   /\ Len(levels) = Cardinality(DOMAIN after)
                   /\ \E i \in 1..Len(levels) : levels[i] = PriceLevel(p, 0, 1)
                   /\ (sd = "bid" /\ p = MaxOf(DOMAIN after))
                      => top.best_bid = PriceLevel(p, 0, 1)
                   /\ (sd = "ask" /\ p = MinOf(DOMAIN after))
                      => top.best_ask = PriceLevel(p, 0, 1))
    /\ [][EntryRemoved
          => \/ last'.op = "OrderBook.clear"
             \/ /\ last'.op = "OrderBook.process_update"
                /\ last'.ret = TRUE
                /\ last'.applied.kind = "delete"]_vars

\* an Add of size 0 was accepted above a bid of size 1: the level of size 0
\* is the best bid and the first of the two levels listed
C31_Witness ==
    /\ last.op = "OrderBook.process_update"
    /\ last.ret = TRUE
    /\ last.applied.kind = "add"
    /\ last.applied.side = "bid"
    /\ DOMAIN TheBook.bids = {0, 1}
    /\ DOMAIN TheBook.bids[1].orders = {Str(TheBook.sequence_number)}
    /\ get_top_of_book(TheBook).best_bid = PriceLevel(1, 0, 1)
    /\ get_price_levels(TheBook, "bid", 2) = <<PriceLevel(1, 0, 1), PriceLevel(0, 1, 1)>>

====
